---- MODULE Spec2Model ----
(***************************************************************************)
(* Sales forecasting demo: FileUploader (CSV ingestion), App (hand-off of  *)
(* the record set) and the three SalesForecasting components of the        *)
(* repository (base, single-select, search + historical comparison).       *)
(*                                                                         *)
(* JavaScript strings are sequences of one-character strings, so that      *)
(* toLowerCase, includes, template literals, Date parsing, parseFloat and  *)
(* property-key order are computed rather than assumed.                    *)
(***************************************************************************)
EXTENDS Integers, Sequences, FiniteSets, Bags, TLC

VARIABLES variant, file, pending, data, searchTerm, selectedProduct,
          chartData, runs, started, liveTensors, earlyReturn, lastParse, lastRun

vars == <<variant, file, pending, data, searchTerm, selectedProduct,
          chartData, runs, started, liveTensors, earlyReturn, lastParse, lastRun>>

(***************************************************************************)
(* Bounds of the model.                                                    *)
(***************************************************************************)
\* Papa.parse calls that may be in flight at once.
MaxPending == 2
\* Train & Predict clicks that reach model.fit in one session.
MaxRuns == 2

(***************************************************************************)
(* JavaScript values of a parsed CSV cell (Papa.parse with dynamicTyping): *)
(* null/undefined, a number, or a string.                                  *)
(***************************************************************************)
Null == [t |-> "null", n |-> 0, s |-> <<>>]
Num(k) == [t |-> "num", n |-> k, s |-> <<>>]
Str(cs) == [t |-> "str", n |-> 0, s |-> cs]

\* JavaScript truthiness of a cell value.
Truthy(v) ==
  CASE v.t = "null" -> FALSE
    [] v.t = "num" -> v.n # 0
    [] v.t = "str" -> v.s # <<>>

Digits == <<"0", "1", "2", "3", "4", "5", "6", "7", "8", "9">>

IsDigit(c) == \E d \in 1..10 : Digits[d] = c

DigitVal(c) == (CHOOSE d \in 1..10 : Digits[d] = c) - 1

\* Number.prototype.toString for the integers of the model.
RECURSIVE NatToString(_)
NatToString(k) ==
  IF k < 10 THEN <<Digits[k + 1]>>
  ELSE NatToString(k \div 10) \o <<Digits[(k % 10) + 1]>>

NumberToString(k) == IF k < 0 THEN <<"-">> \o NatToString(-k) ELSE NatToString(k)

\* Value of a string of decimal digits.
RECURSIVE DigitsToNat(_)
DigitsToNat(cs) ==
  IF cs = <<>> THEN 0
  ELSE 10 * DigitsToNat(SubSeq(cs, 1, Len(cs) - 1)) + DigitVal(cs[Len(cs)])

Upper == <<"A", "B", "C", "D", "E", "F", "G", "H", "I", "J", "K", "L", "M",
           "N", "O", "P", "Q", "R", "S", "T", "U", "V", "W", "X", "Y", "Z">>

Lower == <<"a", "b", "c", "d", "e", "f", "g", "h", "i", "j", "k", "l", "m",
           "n", "o", "p", "q", "r", "s", "t", "u", "v", "w", "x", "y", "z">>

ToLowerChar(c) ==
  IF \E k \in 1..26 : Upper[k] = c
  THEN Lower[CHOOSE k \in 1..26 : Upper[k] = c]
  ELSE c

\* String.prototype.toLowerCase
toLowerCase(cs) == [k \in 1..Len(cs) |-> ToLowerChar(cs[k])]

\* String.prototype.includes
includes(cs, part) ==
  \E at \in 0..(Len(cs) - Len(part)) :
    \A k \in 1..Len(part) : cs[at + k] = part[k]

\* String(value): the property key a value is coerced to.
ToKey(v) ==
  CASE v.t = "str" -> v.s
    [] v.t = "num" -> NumberToString(v.n)
    [] v.t = "null" -> <<"n", "u", "l", "l">>

\* parseFloat(value): [nan, n]. A number is itself; a string yields its
\* longest leading run of digits (optionally signed), NaN when there is none.
RECURSIVE DigitPrefix(_)
DigitPrefix(cs) ==
  IF cs = <<>> \/ ~IsDigit(cs[1]) THEN <<>>
  ELSE <<cs[1]>> \o DigitPrefix(Tail(cs))

parseFloat(v) ==
  CASE v.t = "num" -> [nan |-> FALSE, n |-> v.n]
    [] v.t = "null" -> [nan |-> TRUE, n |-> 0]
    [] v.t = "str" ->
         LET neg == v.s # <<>> /\ v.s[1] = "-"
             body == IF neg THEN Tail(v.s) ELSE v.s
             pre == DigitPrefix(body)
         IN  IF pre = <<>> THEN [nan |-> TRUE, n |-> 0]
             ELSE [nan |-> FALSE,
                   n |-> IF neg THEN -DigitsToNat(pre) ELSE DigitsToNat(pre)]

\* parseFloat(x) || 0
ParseQuantity(v) ==
  LET f == parseFloat(v) IN IF f.nan \/ f.n = 0 THEN 0 ELSE f.n

\* new Date(value) for a date-only ISO string YYYY-MM-DD; any other string is
\* an Invalid Date. [valid, month0] with month0 = getMonth() (0..11).
NewDate(v) ==
  LET cs == v.s
      wellFormed ==
        /\ v.t = "str"
        /\ Len(cs) = 10
        /\ cs[5] = "-" /\ cs[8] = "-"
        /\ \A k \in {1, 2, 3, 4, 6, 7, 9, 10} : IsDigit(cs[k])
      mm == DigitsToNat(SubSeq(cs, 6, 7))
      dd == DigitsToNat(SubSeq(cs, 9, 10))
  IN  IF wellFormed /\ mm \in 1..12 /\ dd \in 1..31
      THEN [valid |-> TRUE, month0 |-> mm - 1]
      ELSE [valid |-> FALSE, month0 |-> 0]

(***************************************************************************)
(* Arrays, Sets and plain objects.  An object is the sequence of its own   *)
(* properties [key, value] in creation order; keys are strings.            *)
(***************************************************************************)
\* [...new Set(values)]: distinct values in first-occurrence order.
RECURSIVE Unique(_)
Unique(values) ==
  IF values = <<>> THEN <<>>
  ELSE LET init == Unique(SubSeq(values, 1, Len(values) - 1))
           last == values[Len(values)]
       IN  IF \E k \in 1..Len(init) : init[k] = last THEN init
           ELSE Append(init, last)

\* The elements of an array at the indices of keep, in array order.
RECURSIVE Pick(_, _, _)
Pick(arr, keep, k) ==
  IF k > Len(arr) THEN <<>>
  ELSE (IF k \in keep THEN <<arr[k]>> ELSE <<>>) \o Pick(arr, keep, k + 1)

\* key in obj
Has(obj, key) == \E k \in 1..Len(obj) : obj[k].key = key

\* obj[key] for an own property
Get(obj, key) == obj[CHOOSE k \in 1..Len(obj) : obj[k].key = key].value

\* obj[key] = value: an existing property keeps its place.
SetProp(obj, key, value) ==
  IF Has(obj, key)
  THEN [k \in 1..Len(obj) |->
          IF obj[k].key = key THEN [key |-> key, value |-> value] ELSE obj[k]]
  ELSE Append(obj, [key |-> key, value |-> value])

\* Object.fromEntries(entries), entries given as <<value-used-as-key, value>>.
RECURSIVE fromEntries(_)
fromEntries(entries) ==
  IF entries = <<>> THEN <<>>
  ELSE LET last == entries[Len(entries)]
       IN  SetProp(fromEntries(SubSeq(entries, 1, Len(entries) - 1)),
                   ToKey(last[1]), last[2])

\* A canonical array index ("0", "7", "20"; not "007"): such keys are
\* enumerated first, in ascending numeric order.  Keys of up to 9 digits.
IsArrayIndex(key) ==
  /\ key # <<>>
  /\ Len(key) <= 9
  /\ \A k \in 1..Len(key) : IsDigit(key[k])
  /\ Len(key) = 1 \/ key[1] # "0"

RECURSIVE SortedIndexKeys(_)
SortedIndexKeys(keys) ==
  IF keys = {} THEN <<>>
  ELSE LET least == CHOOSE a \in keys :
                      \A b \in keys : DigitsToNat(a) <= DigitsToNat(b)
       IN  <<least>> \o SortedIndexKeys(keys \ {least})

\* Object.keys(obj): integer-like keys ascending, then the other keys in
\* creation order (OrdinaryOwnPropertyKeys).
ObjectKeys(obj) ==
  LET created == [k \in 1..Len(obj) |-> obj[k].key]
  IN  SortedIndexKeys({created[k] : k \in {j \in 1..Len(obj) : IsArrayIndex(created[j])}})
        \o SelectSeq(created, LAMBDA key : ~IsArrayIndex(key))

(***************************************************************************)
(* SalesForecasting: preprocessData (identical in the three components,    *)
(* the single-select one adds actualSales).                                *)
(***************************************************************************)
Variants == {"base", "select", "search"}

\* data is a prop that is null or an array of rows.
NoData == [isNull |-> TRUE, rows |-> <<>>]
SomeData(rows) == [isNull |-> FALSE, rows |-> rows]

EmptyPreprocessed ==
  [inputs |-> <<>>, outputs |-> <<>>, productMapping |-> <<>>, actualSales |-> <<>>]

\* salesDates: month 1..12, or null for an Invalid Date.
SalesDates(rows) ==
  [k \in 1..Len(rows) |->
     LET date == NewDate(rows[k].sales_date)
     IN  IF date.valid THEN [isNull |-> FALSE, month |-> date.month0 + 1]
         ELSE [isNull |-> TRUE, month |-> 0]]

\* Mutant of Products: the Set is forgotten, every row numbers a product.
ProductsKeepingDuplicates(rows) ==
  [k \in 1..Len(rows) |-> rows[k].product_description]

Products(rows) == Unique([k \in 1..Len(rows) |-> rows[k].product_description])

ProductMapping(rows) ==
  LET products == Products(rows)
  IN  fromEntries([k \in 1..Len(products) |-> <<products[k], k - 1>>])

Quantities(rows) == [k \in 1..Len(rows) |-> ParseQuantity(rows[k].quantity_sold)]

\* data.map(...): a feature pair, or null for a row to skip.
MappedInputs(rows) ==
  LET salesDates == SalesDates(rows)
      productMapping == ProductMapping(rows)
  IN  [k \in 1..Len(rows) |->
         LET key == ToKey(rows[k].product_description)
         IN  IF ~salesDates[k].isNull /\ Has(productMapping, key)
             THEN [isNull |-> FALSE,
                   pair |-> <<salesDates[k].month, Get(productMapping, key)>>]
             ELSE [isNull |-> TRUE, pair |-> <<>>]]

\* .filter((input) => input !== null)
FilteredInputs(rows) == SelectSeq(MappedInputs(rows), LAMBDA input : ~input.isNull)

\* quantities.filter((q, i) => inputs[i] !== null), inputs being the array
\* already filtered: past its end inputs[i] is undefined, and undefined !== null.
Outputs(rows) ==
  LET inputs == FilteredInputs(rows)
      quantities == Quantities(rows)
      keep == {k \in 1..Len(quantities) :
                 IF k <= Len(inputs) THEN ~inputs[k].isNull ELSE TRUE}
  IN  Pick(quantities, keep, 1)

\* Mutant of AddActualSales: = for +=.
RECURSIVE AddActualSalesOverwriting(_, _)
AddActualSalesOverwriting(acc, rows) ==
  IF rows = <<>> THEN acc
  ELSE LET row == Head(rows)
           date == NewDate(row.sales_date)
           key == ToKey(row.product_description)
           next ==
             IF Has(acc, key) /\ date.valid
             THEN SetProp(acc, key,
                          [Get(acc, key) EXCEPT
                             ![date.month0 + 1] = ParseQuantity(row.quantity_sold)])
             ELSE acc
       IN  AddActualSalesOverwriting(next, Tail(rows))

\* actualSales[product][month] += parseFloat(quantity_sold) || 0 over the rows;
\* an Invalid Date gives month NaN, which is no element of the array.
RECURSIVE AddActualSales(_, _)
AddActualSales(acc, rows) ==
  IF rows = <<>> THEN acc
  ELSE LET row == Head(rows)
           date == NewDate(row.sales_date)
           key == ToKey(row.product_description)
           next ==
             IF Has(acc, key) /\ date.valid
             THEN SetProp(acc, key,
                          [Get(acc, key) EXCEPT
                             ![date.month0 + 1] = @ + ParseQuantity(row.quantity_sold)])
             ELSE acc
       IN  AddActualSales(next, Tail(rows))

\* Array(12).fill(0)
MonthsPerYear == 12

ActualSales(rows) ==
  LET products == Products(rows)
      zeros == fromEntries([k \in 1..Len(products) |->
                              <<products[k], [m \in 1..MonthsPerYear |-> 0]>>])
  IN  AddActualSales(zeros, rows)

preprocessData(v, d) ==
  IF d.isNull \/ Len(d.rows) = 0 THEN EmptyPreprocessed
  ELSE LET inputs == FilteredInputs(d.rows)
       IN  [inputs |-> [k \in 1..Len(inputs) |-> inputs[k].pair],
            outputs |-> Outputs(d.rows),
            productMapping |-> ProductMapping(d.rows),
            actualSales |-> IF v = "select" THEN ActualSales(d.rows) ELSE <<>>]

(***************************************************************************)
(* The forecast model and the prediction loop of trainAndPredict.          *)
(***************************************************************************)
\* for (let i = 1; i <= 6; i++)
Horizon == 6

\* What training leaves behind is not determined by the program (random
\* initial weights): the fitted regressor is one of these functions of
\* (month, product index).
Weights == {[a |-> 1, b |-> 10], [a |-> -1, b |-> 7]}

\* model.predict(tf.tensor2d([[month, index]])).dataSync()[0]
ModelPredict(w, query) == w.a * query[1] + w.b * query[2]

\* One pass of the forEach body.  tensors counts the live tensors made by
\* explicit tf.tensor2d / model.predict calls of the component.
PredictOne(acc, w, productMapping, i, product) ==
  LET query == <<i, Get(productMapping, product)>>
      afterQuery == acc.tensors + 1            \* tf.tensor2d([[i, index]])
      afterPredict == afterQuery + 1           \* predictionTensor
      predictedValue == ModelPredict(w, query) \* dataSync()[0]
      afterDispose == afterPredict - 1         \* predictionTensor.dispose()
  IN  [predictions |-> Append(acc.predictions,
                              [product |-> product, sales_date |-> i,
                               predicted |-> predictedValue]),
       queries |-> Append(acc.queries, query),
       tensors |-> afterDispose]

\* Object.keys(productMapping).forEach(...)
RECURSIVE ForEachProduct(_, _, _, _, _)
ForEachProduct(acc, w, productMapping, i, keys) ==
  IF keys = <<>> THEN acc
  ELSE ForEachProduct(PredictOne(acc, w, productMapping, i, Head(keys)),
                      w, productMapping, i, Tail(keys))

\* Mutant of ForEachMonth: the loop test is i < 6.
RECURSIVE ForEachMonthShort(_, _, _, _)
ForEachMonthShort(acc, w, productMapping, i) ==
  IF i >= Horizon THEN acc
  ELSE ForEachMonthShort(ForEachProduct(acc, w, productMapping, i,
                                        ObjectKeys(productMapping)),
                         w, productMapping, i + 1)

RECURSIVE ForEachMonth(_, _, _, _)
ForEachMonth(acc, w, productMapping, i) ==
  IF i > Horizon THEN acc
  ELSE ForEachMonth(ForEachProduct(acc, w, productMapping, i,
                                   ObjectKeys(productMapping)),
                    w, productMapping, i + 1)

PredictionLoop(w, productMapping, tensors) ==
  ForEachMonth([predictions |-> <<>>, queries |-> <<>>, tensors |-> tensors],
               w, productMapping, 1)

(***************************************************************************)
(* visualizeResults of the three components.                               *)
(***************************************************************************)
\* Array.from({ length: 6 }, (_, i) => `Month ${i + 1}`)
ChartLabels == 6

\* Array.from({ length: 6 }, (_, month) => ...) of the historical comparison
ActualMonths == 6

MonthPrefix == <<"M", "o", "n", "t", "h", " ">>

Labels == [k \in 1..ChartLabels |-> MonthPrefix \o NumberToString(k)]

\* The data of a series: an array of values, or undefined.
Defined(points) == [defined |-> TRUE, points |-> points]
Undefined == [defined |-> FALSE, points |-> <<>>]

NoChart == [isNull |-> TRUE, labels |-> <<>>, datasets |-> <<>>]
Chart(datasets) == [isNull |-> FALSE, labels |-> Labels, datasets |-> datasets]

PredictionProducts(predictions) ==
  Unique([k \in 1..Len(predictions) |-> predictions[k].product])

\* predictions.filter((p) => p.product === product).map((p) => p.predicted)
PredictedOf(predictions, product) ==
  LET own == SelectSeq(predictions, LAMBDA p : p.product = product)
  IN  [k \in 1..Len(own) |-> Num(own[k].predicted)]

\* part_000: one series per product.
visualizeResultsBase(predictions) ==
  LET products == PredictionProducts(predictions)
  IN  Chart([k \in 1..Len(products) |->
               [label |-> products[k],
                data |-> Defined(PredictedOf(predictions, products[k]))]])

SelectPredicted == <<" ", "P", "r", "e", "d", "i", "c", "t", "e", "d">>
SelectActual == <<" ", "A", "c", "t", "u", "a", "l">>

\* add: single-select component.
visualizeResultsSelect(predictions, actualSales, selected) ==
  LET products == PredictionProducts(predictions)
      filteredPredictions ==
        IF selected # <<>>
        THEN SelectSeq(predictions, LAMBDA p : p.product = selected)
        ELSE predictions
      predicted ==
        [k \in 1..Len(products) |->
           [label |-> products[k] \o SelectPredicted,
            data |-> Defined(PredictedOf(filteredPredictions, products[k]))]]
      actual ==
        [label |-> selected \o SelectActual,
         data |-> IF Has(actualSales, selected)
                  THEN LET sums == Get(actualSales, selected)
                       IN  Defined([m \in 1..Len(sums) |-> Num(sums[m])])
                  ELSE Undefined]
  IN  Chart(IF selected # <<>> THEN Append(predicted, actual) ELSE predicted)

\* Mutant of filterPredictions: the search term is compared as typed.
filterPredictionsTermAsTyped(predictions, term) ==
  IF term = <<>> THEN predictions
  ELSE SelectSeq(predictions,
                 LAMBDA prediction : includes(toLowerCase(prediction.product), term))

\* SalesForecasting.js: filterPredictions
filterPredictions(predictions, term) ==
  IF term = <<>> THEN predictions
  ELSE SelectSeq(predictions,
                 LAMBDA prediction :
                   includes(toLowerCase(prediction.product), toLowerCase(term)))

\* row.product_description === product, product being a property key (a string)
StrictEqualsString(v, str) == v.t = "str" /\ v.s = str

\* The first raw record of the product in calendar month `month`, else 0.
ActualOf(rows, product, month) ==
  LET salesData ==
        SelectSeq(rows,
                  LAMBDA row :
                    LET date == NewDate(row.sales_date)
                    IN  /\ StrictEqualsString(row.product_description, product)
                        /\ date.valid
                        /\ date.month0 + 1 = month)
  IN  IF Len(salesData) > 0 THEN salesData[1].quantity_sold ELSE Num(0)

SearchPredicted == <<" ", "(", "P", "r", "e", "d", "i", "c", "t", "e", "d", ")">>
SearchActual == <<" ", "(", "A", "c", "t", "u", "a", "l", ")">>

\* SalesForecasting.js: search filter and historical comparison.
visualizeResultsSearch(predictions, term, rows) ==
  LET filtered == filterPredictions(predictions, term)
      products == PredictionProducts(filtered)
      actualSales ==
        [k \in 1..Len(products) |->
           [m \in 1..ActualMonths |-> ActualOf(rows, products[k], m)]]
      predicted ==
        [k \in 1..Len(products) |->
           [label |-> products[k] \o SearchPredicted,
            data |-> Defined(PredictedOf(filtered, products[k]))]]
      actual ==
        [k \in 1..Len(products) |->
           [label |-> products[k] \o SearchActual,
            data |-> Defined(actualSales[k])]]
  IN  Chart(predicted \o actual)

visualizeResults(v, run, actualSales, predictions) ==
  CASE v = "base" -> visualizeResultsBase(predictions)
    [] v = "select" ->
         visualizeResultsSelect(predictions, actualSales, run.selectedProduct)
    [] v = "search" ->
         visualizeResultsSearch(predictions, run.searchTerm, run.data.rows)

(***************************************************************************)
(* FileUploader: the rows Papa.parse hands to `complete`, and the filter.  *)
(***************************************************************************)
ProductA == <<"P", "r", "o", "d", "u", "c", "t", " ", "A">>
ProductB == <<"P", "r", "o", "d", "u", "c", "t", " ", "B">>
WidgetA == <<"W", "i", "d", "g", "e", "t", " ", "A">>
GadgetB == <<"G", "a", "d", "g", "e", "t", " ", "B">>
Jan15 == <<"2", "0", "2", "4", "-", "0", "1", "-", "1", "5">>
Jan20 == <<"2", "0", "2", "4", "-", "0", "1", "-", "2", "0">>
Feb10 == <<"2", "0", "2", "4", "-", "0", "2", "-", "1", "0">>
Mar05 == <<"2", "0", "2", "4", "-", "0", "3", "-", "0", "5">>
NotADate == <<"n", "o", "t", "-", "a", "-", "d", "a", "t", "e">>
Abc == <<"a", "b", "c">>
TermWidget == <<"W", "I", "D", "G", "E", "T">>
TermGet == <<"g", "e", "t">>

Row(d, p, q) == [sales_date |-> d, product_description |-> p, quantity_sold |-> q]

\* The row Papa.parse yields for the empty last line of a file.
BlankRow == Row(Null, Null, Null)

ExampleCsv ==
  <<Row(Null, Str(ProductA), Num(10)),
    Row(Str(Jan15), Str(ProductA), Num(10)),
    Row(Str(Jan20), Str(ProductA), Num(0)),
    Row(Str(Feb10), Str(ProductB), Num(20)),
    Row(Str(Feb10), Null, Num(5)),
    Row(Str(Jan20), Str(ProductA), Num(7)),
    BlankRow>>

BadDateCsv ==
  <<Row(Str(NotADate), Str(WidgetA), Num(5)),
    Row(Str(Mar05), Str(WidgetA), Num(4))>>

CatalogCsv ==
  <<Row(Str(Jan15), Str(WidgetA), Num(10)),
    Row(Str(Mar05), Num(20), Num(3)),
    Row(Str(Jan20), Str(WidgetA), Num(7)),
    Row(Str(Feb10), Str(GadgetB), Str(Abc)),
    Row(Str(Jan15), Num(10), Num(4))>>

AllBadCsv == <<Row(Str(NotADate), Str(ProductA), Num(5))>>

HeaderOnlyCsv == <<BlankRow>>

\* results.data of the files a user may select.
Files ==
  {ExampleCsv, BadDateCsv, CatalogCsv, AllBadCsv, HeaderOnlyCsv}

\* What the search box may hold.
SearchTerms == {<<>>, TermWidget, TermGet}

\* The three product buttons.
Selections == {ProductA, ProductB, <<>>}

\* Mutant of FilterRows: quantity_sold is not tested.
RECURSIVE FilterRowsIgnoringQuantity(_)
FilterRowsIgnoringQuantity(rows) ==
  IF rows = <<>> THEN <<>>
  ELSE LET row == Head(rows)
           keep == Truthy(row.sales_date) /\ Truthy(row.product_description)
       IN  (IF keep THEN <<row>> ELSE <<>>) \o FilterRowsIgnoringQuantity(Tail(rows))

\* results.data.filter(row => row.sales_date && row.product_description && row.quantity_sold)
RECURSIVE FilterRows(_)
FilterRows(rows) ==
  IF rows = <<>> THEN <<>>
  ELSE LET row == Head(rows)
           keep == /\ Truthy(row.sales_date)
                   /\ Truthy(row.product_description)
                   /\ Truthy(row.quantity_sold)
       IN  (IF keep THEN <<row>> ELSE <<>>) \o FilterRows(Tail(rows))

(***************************************************************************)
(* State.                                                                  *)
(*   variant          which SalesForecasting component App renders         *)
(*   file             FileUploader's selected file (its parsed rows)       *)
(*   pending          bag of the Papa.parse calls whose `complete` has not *)
(*                    run yet (they complete in any order)                 *)
(*   data             App's record set                                     *)
(*   searchTerm, selectedProduct, chartData   SalesForecasting's state     *)
(*   runs             bag of the trainAndPredict calls suspended in        *)
(*                    model.fit: the props and state of the render whose   *)
(*                    handler was clicked (the closure of the call)        *)
(*   started          calls that reached model.fit                         *)
(*   liveTensors      tensors made by the component and not disposed       *)
(* History, read by the properties only:                                   *)
(*   earlyReturn      the handler that ran last, when it returned early    *)
(*   lastParse        results.data of the parse that completed last        *)
(*   lastRun          the call whose model.fit settled last, how it        *)
(*                    settled, the fitted model, and the tensor count      *)
(*                    before and after its prediction loop                 *)
(***************************************************************************)
Closure(d, term, selected) ==
  [data |-> d, searchTerm |-> term, selectedProduct |-> selected]

NoWeights == [a |-> 0, b |-> 0]

NoRun ==
  [settled |-> "none", run |-> Closure(NoData, <<>>, <<>>), w |-> NoWeights,
   tensorsBefore |-> 0, tensorsAfter |-> 0]

Init ==
  /\ variant \in Variants
  /\ file = NoData
  /\ pending = EmptyBag
  /\ data = NoData
  /\ searchTerm = <<>>
  /\ selectedProduct = <<>>
  /\ chartData = NoChart
  /\ runs = EmptyBag
  /\ started = 0
  /\ liveTensors = 0
  /\ earlyReturn = "none"
  /\ lastParse = <<>>
  /\ lastRun = NoRun

\* App renders FileUploader while !data, SalesForecasting once data is truthy
\* (an array, even an empty one, is truthy).
UploaderShown == data.isNull
ForecastingShown == ~data.isNull

\* FileUploader.handleFileChange: setFile(event.target.files[0])
handleFileChange(f) ==
  /\ UploaderShown
  /\ file' = f
  /\ earlyReturn' = "none"
  /\ UNCHANGED <<variant, pending, data, searchTerm, selectedProduct, chartData,
                 runs, started, liveTensors, lastParse, lastRun>>

\* FileUploader.processFile: if (!file) return; Papa.parse(file, {...})
processFile ==
  /\ UploaderShown
  /\ IF file.isNull
     THEN /\ earlyReturn' = "processFile"
          /\ UNCHANGED pending
     ELSE /\ BagCardinality(pending) < MaxPending
          /\ pending' = pending (+) SetToBag({file.rows})
          /\ earlyReturn' = "none"
  /\ UNCHANGED <<variant, file, data, searchTerm, selectedProduct, chartData,
                 runs, started, liveTensors, lastParse, lastRun>>

\* Papa.parse's complete callback: onDataProcessed(filtered) = App's setData.
\* With data truthy FileUploader is unmounted, and its state with it.
complete(rows) ==
  /\ BagIn(rows, pending)
  /\ data' = SomeData(FilterRows(rows))
  /\ pending' = pending (-) SetToBag({rows})
  /\ file' = NoData
  /\ lastParse' = rows
  /\ earlyReturn' = "none"
  /\ UNCHANGED <<variant, searchTerm, selectedProduct, chartData, runs, started,
                 liveTensors, lastRun>>

\* The record sets App can hold, and preprocessData tabulated over them (the
\* table is computed once; the handlers look their result up in it).
RecordSets == {SomeData(FilterRows(rows)) : rows \in Files}

Preprocessed == [v \in Variants, d \in RecordSets |-> preprocessData(v, d)]

\* Mutant of NothingToTrain: && for ||.
NothingToTrainBoth(pre) == Len(pre.inputs) = 0 /\ Len(pre.outputs) = 0

\* if (inputs.length === 0 || outputs.length === 0) return;
NothingToTrain(pre) == Len(pre.inputs) = 0 \/ Len(pre.outputs) = 0

\* trainAndPredict up to `await model.fit(xs, ys, ...)`.
trainAndPredict ==
  /\ ForecastingShown
  /\ IF NothingToTrain(Preprocessed[variant, data])
     THEN /\ earlyReturn' = "trainAndPredict"
          /\ UNCHANGED <<runs, started, liveTensors>>
     ELSE /\ started < MaxRuns
          /\ runs' = runs (+) SetToBag({Closure(data, searchTerm, selectedProduct)})
          /\ started' = started + 1
          /\ liveTensors' = liveTensors + 2      \* xs, ys
          /\ earlyReturn' = "none"
  /\ UNCHANGED <<variant, file, pending, data, searchTerm, selectedProduct,
                 chartData, lastParse, lastRun>>

\* The locals of a suspended call: what preprocessData returned to it.
Locals(run) == Preprocessed[variant, run.data]

\* model.fit checks that xs and ys hold the same number of samples and
\* rejects otherwise.
FitAccepts(run) ==
  LET pre == Locals(run) IN Len(pre.inputs) = Len(pre.outputs)

\* What runs when model.fit resolves, tabulated like preprocessData: the
\* prediction loop (its tensor count starting from 0) and visualizeResults.
Closures ==
  {Closure(d, term, selected) :
     d \in RecordSets, term \in SearchTerms, selected \in Selections}

AfterFit ==
  [v \in Variants, run \in Closures, w \in Weights |->
     LET pre == Preprocessed[v, run.data]
         loop == PredictionLoop(w, pre.productMapping, 0)
     IN  [predictions |-> loop.predictions,
          queries |-> loop.queries,
          tensors |-> loop.tensors,
          chart |-> visualizeResults(v, run, pre.actualSales, loop.predictions)]]

\* Mutant of fitResolved: visualizeResults reads the search term and the
\* selection current when the fit resolves, not those of the click.
fitResolvedReadingState(run, w) ==
  /\ BagIn(run, runs)
  /\ FitAccepts(run)
  /\ chartData' =
       AfterFit[variant, Closure(run.data, searchTerm, selectedProduct), w].chart
  /\ liveTensors' = liveTensors + AfterFit[variant, run, w].tensors
  /\ lastRun' = [settled |-> "resolved", run |-> run, w |-> w,
                 tensorsBefore |-> liveTensors, tensorsAfter |-> liveTensors']
  /\ runs' = runs (-) SetToBag({run})
  /\ earlyReturn' = "none"
  /\ UNCHANGED <<variant, file, pending, data, searchTerm, selectedProduct,
                 started, lastParse>>

\* model.fit resolves: the prediction loop and visualizeResults run.
fitResolved(run, w) ==
  /\ BagIn(run, runs)
  /\ FitAccepts(run)
  /\ chartData' = AfterFit[variant, run, w].chart
  /\ liveTensors' = liveTensors + AfterFit[variant, run, w].tensors
  /\ lastRun' = [settled |-> "resolved", run |-> run, w |-> w,
                 tensorsBefore |-> liveTensors, tensorsAfter |-> liveTensors']
  /\ runs' = runs (-) SetToBag({run})
  /\ earlyReturn' = "none"
  /\ UNCHANGED <<variant, file, pending, data, searchTerm, selectedProduct,
                 started, lastParse>>

\* model.fit rejects: trainAndPredict ends with the rejection.
fitRejected(run) ==
  /\ BagIn(run, runs)
  /\ ~FitAccepts(run)
  /\ runs' = runs (-) SetToBag({run})
  /\ lastRun' = [settled |-> "rejected", run |-> run, w |-> NoWeights,
                 tensorsBefore |-> liveTensors, tensorsAfter |-> liveTensors]
  /\ earlyReturn' = "none"
  /\ UNCHANGED <<variant, file, pending, data, searchTerm, selectedProduct,
                 chartData, started, liveTensors, lastParse>>

\* SalesForecasting.js: handleSearchChange
handleSearchChange(term) ==
  /\ variant = "search"
  /\ ForecastingShown
  /\ term # searchTerm
  /\ searchTerm' = term
  /\ earlyReturn' = "none"
  /\ UNCHANGED <<variant, file, pending, data, selectedProduct, chartData, runs,
                 started, liveTensors, lastParse, lastRun>>

\* add: the product buttons
setSelectedProduct(product) ==
  /\ variant = "select"
  /\ ForecastingShown
  /\ selectedProduct' = product
  /\ earlyReturn' = "none"
  /\ UNCHANGED <<variant, file, pending, data, searchTerm, chartData, runs,
                 started, liveTensors, lastParse, lastRun>>

Next ==
  \/ \E f \in {SomeData(rows) : rows \in Files} \cup {NoData} : handleFileChange(f)
  \/ processFile
  \/ \E rows \in BagToSet(pending) : complete(rows)
  \/ trainAndPredict
  \/ \E run \in BagToSet(runs), w \in Weights : fitResolved(run, w)
  \/ \E run \in BagToSet(runs) : fitRejected(run)
  \/ \E term \in SearchTerms : handleSearchChange(term)
  \/ \E product \in Selections : setSelectedProduct(product)

Spec == Init /\ [][Next]_vars

(***************************************************************************)
(* Properties.  They are stated from the rows of a record set, not from    *)
(* the operators above, so that the model decides them.                    *)
(***************************************************************************)
\* The k-th smallest element of a set of indices.
KthOf(indices, k) ==
  CHOOSE i \in indices : Cardinality({j \in indices : j < i}) = k - 1

\* The rows of a record set whose sales_date parses.
DatedRows(rows) == {k \in 1..Len(rows) : NewDate(rows[k].sales_date).valid}

\* The rows that name the same product as row k.
SameProduct(rows, j, k) == rows[j].product_description = rows[k].product_description

\* The rows where a product occurs first, and their number N.
FirstOccurrences(rows) ==
  {k \in 1..Len(rows) : \A j \in 1..(k - 1) : ~SameProduct(rows, j, k)}

\* The 0-based rank of row k's product in first-occurrence order.
FirstOccurrenceRank(rows, k) ==
  LET first == CHOOSE j \in FirstOccurrences(rows) : SameProduct(rows, j, k)
  IN  Cardinality({j \in FirstOccurrences(rows) : j < first})

\* The call that settled last, its locals, and what ran after its fit.
LastLocals == Preprocessed[variant, lastRun.run.data]
LastAfterFit == AfterFit[variant, lastRun.run, lastRun.w]
LastRows == lastRun.run.data.rows

\* C1: for every record set, feature pairs are built only for the rows with
\* a valid month, outputs is as long as inputs, and outputs[k] is the parsed
\* quantity of the k-th surviving row.
C1_OutputsAligned(rows, pre) ==
  LET surviving == DatedRows(rows)
  IN  /\ Len(pre.inputs) = Cardinality(surviving)
      /\ Len(pre.outputs) = Len(pre.inputs)
      /\ \A k \in 1..Len(pre.outputs) :
           pre.outputs[k] = ParseQuantity(rows[KthOf(surviving, k)].quantity_sold)

\* C1 as claimed, of the record set the component holds.
CE_C1 ==
  ForecastingShown => C1_OutputsAligned(data.rows, Preprocessed[variant, data])

\* C2: the product mapping of a non-empty record set is a bijection between
\* its distinct products and 0..N-1, indices in first-occurrence order; the
\* training inputs and the prediction queries of a run use that index.
C2_IsBijection(rows, productMapping) ==
  LET n == Cardinality(FirstOccurrences(rows))
  IN  /\ Len(productMapping) = n
      /\ {productMapping[k].value : k \in 1..Len(productMapping)} = 0..(n - 1)
      /\ \A j, k \in 1..Len(productMapping) :
           productMapping[j].key = productMapping[k].key => j = k
      /\ \A k \in 1..Len(rows) :
           /\ Has(productMapping, ToKey(rows[k].product_description))
           /\ Get(productMapping, ToKey(rows[k].product_description))
                = FirstOccurrenceRank(rows, k)

C2_RunUsesMapping ==
  LET rows == LastRows
      dated == DatedRows(rows)
  IN  /\ \A k \in 1..Len(LastLocals.inputs) :
           k <= Cardinality(dated) =>
             LastLocals.inputs[k][2] = FirstOccurrenceRank(rows, KthOf(dated, k))
      /\ \A q \in 1..Len(LastAfterFit.predictions) :
           \E k \in 1..Len(rows) :
             /\ ToKey(rows[k].product_description) = LastAfterFit.predictions[q].product
             /\ LastAfterFit.queries[q][2] = FirstOccurrenceRank(rows, k)

\* C2: the mapping is such a bijection for the record set held and for the
\* run that resolved last, whose inputs and queries use its indices.
C2_MappingBijection ==
  /\ (ForecastingShown /\ data.rows # <<>>) =>
       C2_IsBijection(data.rows, Preprocessed[variant, data].productMapping)
  /\ lastRun.settled = "resolved" =>
       /\ C2_IsBijection(LastRows, LastLocals.productMapping)
       /\ C2_RunUsesMapping

\* C2's case: a run over four products, two of them numeric codes, resolved.
C2_Witness ==
  /\ lastRun.settled = "resolved"
  /\ Cardinality(FirstOccurrences(LastRows)) = 4
  /\ \E k \in 1..Len(LastRows) : LastRows[k].product_description.t = "num"

\* C3: a chart has the labels "Month 1".."Month 6", and every series of it
\* has exactly 6 points.
SixMonthLabels ==
  [k \in 1..6 |-> <<"M", "o", "n", "t", "h", " ">> \o <<Digits[k + 1]>>]

C3_SixPoints(chart) ==
  /\ chart.labels = SixMonthLabels
  /\ \A k \in 1..Len(chart.datasets) :
       /\ chart.datasets[k].data.defined
       /\ Len(chart.datasets[k].data.points) = 6

\* C3 as claimed, of every chart in every variant.
CE_C3 == ~chartData.isNull => C3_SixPoints(chartData)

\* The row where the product with property key `key` occurs first.
RowOf(rows, key) ==
  CHOOSE k \in FirstOccurrences(rows) : ToKey(rows[k].product_description) = key

\* C4, the part about size and months: 6*N entries, month by month, every
\* (month, product) pair exactly once.
C4_Grid(rows, predictions) ==
  LET n == Cardinality(FirstOccurrences(rows))
  IN  /\ Len(predictions) = 6 * n
      /\ \A q \in 1..Len(predictions) :
           /\ predictions[q].sales_date \in 1..6
           /\ predictions[q].sales_date = ((q - 1) \div n) + 1
      /\ \A m \in 1..6 : \A k \in FirstOccurrences(rows) :
           Cardinality({q \in 1..Len(predictions) :
                          /\ predictions[q].sales_date = m
                          /\ predictions[q].product
                               = ToKey(rows[k].product_description)}) = 1

\* Property enumeration order of two products, by the rows that name them
\* first: non-negative integer names ascending, then the others as first seen.
C4_KeyBefore(rows, j, k) ==
  LET a == rows[j].product_description
      b == rows[k].product_description
      aCode == a.t = "num" /\ a.n >= 0
      bCode == b.t = "num" /\ b.n >= 0
  IN  CASE aCode /\ bCode -> a.n < b.n
        [] aCode /\ ~bCode -> TRUE
        [] ~aCode /\ bCode -> FALSE
        [] OTHER -> j < k

C4_SameMonthPairs(predictions) ==
  {pair \in (1..Len(predictions)) \X (1..Len(predictions)) :
     /\ pair[1] < pair[2]
     /\ predictions[pair[1]].sales_date = predictions[pair[2]].sales_date}

CE_C5 ==
  ( /\ started = 1
    /\ lastRun.settled # "none"
    /\ lastRun.run.searchTerm = <<>>
    /\ lastRun.run.selectedProduct = <<>> ) =>
    /\ ~chartData.isNull
    /\ Len(chartData.datasets) = Cardinality(FirstOccurrences(LastRows))
    /\ \A k \in 1..Len(chartData.datasets) :
         /\ chartData.datasets[k].data.defined
         /\ Len(chartData.datasets[k].data.points) = 6
         /\ \A m \in 1..Len(chartData.datasets[k].data.points) :
              chartData.datasets[k].data.points[m].t = "num"

C6_EmptyResult(pre) ==
  pre.inputs = <<>> /\ pre.outputs = <<>> /\ pre.productMapping = <<>>

C6_EmptyData ==
  /\ C6_EmptyResult(preprocessData(variant, NoData))
  /\ C6_EmptyResult(preprocessData(variant, SomeData(<<>>)))
  /\ (ForecastingShown /\ data.rows = <<>>) =>
       C6_EmptyResult(Preprocessed[variant, data])

C6_ClickWithNothing ==
  /\ trainAndPredict
  /\ \/ Len(Preprocessed[variant, data].inputs) = 0
     \/ Len(Preprocessed[variant, data].outputs) = 0

\* C6: preprocessData of undefined or empty data returns empty inputs, outputs
\* and mapping; a Train & Predict click whose inputs or outputs are empty
\* starts no training and leaves the chart as it was.
C6_EmptyAborts ==
  /\ []C6_EmptyData
  /\ [][C6_ClickWithNothing =>
          /\ UNCHANGED <<chartData, runs, started, liveTensors, lastRun>>
          /\ earlyReturn' = "trainAndPredict"]_vars

\* C6's case: a chart is shown, the record set has rows but none survives
\* preprocessing, and Train & Predict has just returned early.
C6_Witness ==
  /\ earlyReturn = "trainAndPredict"
  /\ ~chartData.isNull
  /\ data.rows # <<>>
  /\ DatedRows(data.rows) = {}

\* C7 as claimed: when the prediction loop ends, the number of live tensors
\* is what it was when the loop began.
CE_C7 ==
  lastRun.settled = "resolved" => lastRun.tensorsAfter = lastRun.tensorsBefore

\* The property keys of the products of a record set.
ProductKeys(rows) ==
  {ToKey(rows[k].product_description) : k \in FirstOccurrences(rows)}

\* Two characters that are the same letter, whatever their case.
C8_SameLetter(a, b) ==
  a = b \/ \E k \in 1..26 : {a, b} = {Upper[k], Lower[k]}

\* name contains term as a substring, case ignored.
C8_Contains(name, term) ==
  \E at \in 0..(Len(name) - Len(term)) :
    \A k \in 1..Len(term) : C8_SameLetter(name[at + k], term[k])

\* C8: in the search variant the series of a chart are those of exactly the
\* products whose name contains the search term of the click, case ignored;
\* with an empty term every product is retained.
C8_SearchFilter ==
  (variant = "search" /\ lastRun.settled = "resolved") =>
    LET term == lastRun.run.searchTerm
        kept == {name \in ProductKeys(LastRows) : C8_Contains(name, term)}
        labels == {chartData.datasets[k].label : k \in 1..Len(chartData.datasets)}
    IN  /\ labels = {name \o SearchPredicted : name \in kept}
                      \cup {name \o SearchActual : name \in kept}
        /\ Len(chartData.datasets) = 2 * Cardinality(kept)
        /\ term = <<>> => kept = ProductKeys(LastRows)

\* C8's case: four products, the term WIDGET, and only Widget A retained.
C8_Witness ==
  /\ variant = "search"
  /\ lastRun.settled = "resolved"
  /\ lastRun.run.searchTerm = TermWidget
  /\ Cardinality(ProductKeys(LastRows)) = 4
  /\ Len(chartData.datasets) = 2
  /\ chartData.datasets[1].label = WidgetA \o SearchPredicted

\* The total quantity of the rows of a product in a calendar month.
RECURSIVE C9_Total(_, _)
C9_Total(rows, indices) ==
  IF indices = {} THEN 0
  ELSE LET k == CHOOSE i \in indices : TRUE
       IN  ParseQuantity(rows[k].quantity_sold) + C9_Total(rows, indices \ {k})

C9_MonthTotal(rows, key, m) ==
  C9_Total(rows, {k \in DatedRows(rows) :
                    /\ ToKey(rows[k].product_description) = key
                    /\ NewDate(rows[k].sales_date).month0 + 1 = m})

\* C9: in the single-select variant a chart holds one predicted series per
\* product, and after them an "Actual" series exactly when a product was
\* selected at the click: that product's, its data the per-month totals.
\* With no selection every predicted series holds the product's predictions.
C9_SelectOverlay ==
  (variant = "select" /\ lastRun.settled = "resolved") =>
    LET selected == lastRun.run.selectedProduct
        names == ProductKeys(LastRows)
        n == Cardinality(names)
        series == chartData.datasets
    IN  /\ Len(series) = n + (IF selected = <<>> THEN 0 ELSE 1)
        /\ {series[k].label : k \in 1..n} = {name \o SelectPredicted : name \in names}
        /\ selected = <<>> =>
             \A k \in 1..n :
               \E name \in names :
                 /\ series[k].label = name \o SelectPredicted
                 /\ series[k].data =
                      Defined([m \in 1..6 |->
                                 Num(ModelPredict(lastRun.w,
                                       <<m, FirstOccurrenceRank(LastRows,
                                                                RowOf(LastRows, name))>>))])
        /\ selected # <<>> =>
             /\ series[n + 1].label = selected \o SelectActual
             /\ series[n + 1].data =
                  IF selected \in names
                  THEN Defined([m \in 1..12 |->
                                  Num(C9_MonthTotal(LastRows, selected, m))])
                  ELSE Undefined

\* C9's case: Product A selected, sold twice in January (10 and 7).
C9_Witness ==
  /\ variant = "select"
  /\ lastRun.settled = "resolved"
  /\ lastRun.run.selectedProduct = ProductA
  /\ Len(chartData.datasets) = 3
  /\ chartData.datasets[3].data.defined
  /\ chartData.datasets[3].data.points[1] = Num(17)

\* A field that is present and truthy.
C10_Present(v) ==
  ~(v.t = "null" \/ (v.t = "num" /\ v.n = 0) \/ (v.t = "str" /\ v.s = <<>>))

C10_Kept(raw) ==
  {k \in 1..Len(raw) :
     /\ C10_Present(raw[k].sales_date)
     /\ C10_Present(raw[k].product_description)
     /\ C10_Present(raw[k].quantity_sold)}

C10_HandedOver ==
  ForecastingShown =>
    /\ Len(data.rows) = Cardinality(C10_Kept(lastParse))
    /\ \A j \in 1..Len(data.rows) :
         data.rows[j] = lastParse[KthOf(C10_Kept(lastParse), j)]

\* C10: the callback receives exactly the parsed rows whose three fields are
\* present and truthy, in their order; Process File with no file selected
\* starts no parse and hands nothing over.
C10_ProcessFile ==
  /\ []C10_HandedOver
  /\ [][(processFile /\ file.isNull) => UNCHANGED <<pending, data, lastParse>>]_vars

\* C10's case: a parse of seven rows completed and three were handed over.
C10_Witness ==
  /\ ForecastingShown
  /\ Len(lastParse) = 7
  /\ Len(data.rows) = 3
  /\ data.rows[3] = lastParse[6]

\* C11 as claimed: a run that went into model.fit is never dropped; when its
\* fit settles it has run to completion and its chart is the one shown.
CE_C11 ==
  lastRun.settled # "none" =>
    /\ lastRun.settled = "resolved"
    /\ ~chartData.isNull

\* The first record of a product (by property key) in calendar month m.
C12_FirstOfMonth(rows, name, m) ==
  LET matching == {k \in DatedRows(rows) :
                     /\ ToKey(rows[k].product_description) = name
                     /\ NewDate(rows[k].sales_date).month0 + 1 = m}
  IN  IF matching = {} THEN Num(0)
      ELSE rows[KthOf(matching, 1)].quantity_sold

\* C12 as claimed: in the search variant every product that survives the
\* filter has one "Actual" series of 6 values, the value of month m being the
\* quantity_sold of the product's first record of that month, 0 without one.
CE_C12 ==
  (variant = "search" /\ lastRun.settled = "resolved") =>
    LET kept == {name \in ProductKeys(LastRows) :
                   C8_Contains(name, lastRun.run.searchTerm)}
        series == chartData.datasets
    IN  \A name \in kept :
          /\ Cardinality({k \in 1..Len(series) :
                            series[k].label = name \o SearchActual}) = 1
          /\ \A k \in 1..Len(series) :
               series[k].label = name \o SearchActual =>
                 series[k].data =
                   Defined([m \in 1..6 |-> C12_FirstOfMonth(LastRows, name, m)])

\* The chart of the run that resolved last shows the search term or the
\* selection its closure holds.
C13_ChartOfClick ==
  lastRun.settled = "resolved" =>
    LET term == lastRun.run.searchTerm
        selected == lastRun.run.selectedProduct
        names == ProductKeys(LastRows)
        n == Cardinality(names)
        series == chartData.datasets
    IN  /\ variant = "search" =>
             {series[k].label : k \in 1..Len(series)} =
               UNION {{name \o SearchPredicted, name \o SearchActual} :
                        name \in {nm \in names : C8_Contains(nm, term)}}
        /\ variant = "select" =>
             /\ Len(series) = n + (IF selected = <<>> THEN 0 ELSE 1)
             /\ selected # <<>> => series[n + 1].label = selected \o SelectActual
             /\ \A k \in 1..n :
                  series[k].data.points # <<>> <=>
                    \/ selected = <<>>
                    \/ series[k].label = selected \o SelectPredicted

\* A step that changes the term or the selection leaves the chart alone; a
\* click that goes into training suspends a run holding the term and the
\* selection of that moment; the chart changes only when such a run resolves.
C13_Frame ==
  /\ (searchTerm' # searchTerm \/ selectedProduct' # selectedProduct) =>
       chartData' = chartData
  /\ started' # started =>
       runs' = runs (+) SetToBag({Closure(data, searchTerm, selectedProduct)})
  /\ chartData' # chartData =>
       /\ lastRun'.settled = "resolved"
       /\ BagIn(lastRun'.run, runs)
       /\ runs' = runs (-) SetToBag({lastRun'.run})

\* C13: changing the search term or the selected product leaves chartData
\* unchanged; the chart reflects the term or selection current at the click
\* that produced it, even when changed during training, and only a completed
\* run refreshes it.
C13_ChartReflectsClick == []C13_ChartOfClick /\ [][C13_Frame]_vars

\* C13's case: a run clicked with the term WIDGET resolved and drew only
\* Widget A, while the box holds "get" (which would keep two products) and a
\* run clicked with "get" is still training.
C13_Witness ==
  /\ variant = "search"
  /\ lastRun.settled = "resolved"
  /\ lastRun.run.searchTerm = TermWidget
  /\ searchTerm = TermGet
  /\ \E run \in BagToSet(runs) : run.searchTerm = TermGet
  /\ Cardinality(ProductKeys(LastRows)) = 4
  /\ Len(chartData.datasets) = 2
  /\ chartData.datasets[2].label = WidgetA \o SearchActual

\* C14 as claimed: the record set is handed off at most once; once App holds
\* a record sequence the uploader is gone and the record set the forecasting
\* component sees never changes again.
CE_C14 ==
  [][ForecastingShown => (data' = data /\ ForecastingShown')]_vars

====
